---- MODULE Spec2Model ----
(***************************************************************************)
(* A model of applyCLAHE (src/src/clahe.h): contrast limited adaptive      *)
(* histogram equalization of an 8-bit grayscale buffer, in place.          *)
(*                                                                         *)
(* The function is modelled as a state machine whose steps are the         *)
(* function's own stages: validation, the allocation of the CDF table,     *)
(* one step per tile (histogram, clip and redistribute, CDF), the          *)
(* allocation of the output buffer, one step per pixel (bilinear           *)
(* interpolation) and the final copy-back.                                 *)
(*                                                                         *)
(* The code computes the interpolation in IEEE-754 binary64.  The model    *)
(* computes the same roundings: a double is a sign, a 53-bit significand   *)
(* kept as base-2^15 limbs (TLC's integers are 32 bits wide) and a binary  *)
(* exponent, and every operation rounds to nearest, ties to even.          *)
(***************************************************************************)
EXTENDS Integers, Sequences, FiniteSets

(***************************************************************************)
(* Unbounded naturals as little-endian sequences of base-2^15 limbs, with  *)
(* no high zero limb (zero is the empty sequence).                         *)
(***************************************************************************)
LimbBits == 15

LimbBase == 32768

RECURSIVE Pow2(_)
Pow2(k) == IF k = 0 THEN 1 ELSE 2 * Pow2(k - 1)

Limb(a, i) == IF i <= Len(a) THEN a[i] ELSE 0

RECURSIVE BNorm(_)
BNorm(a) ==
    IF a = <<>> THEN <<>>
    ELSE IF a[Len(a)] = 0 THEN BNorm(SubSeq(a, 1, Len(a) - 1))
    ELSE a

RECURSIVE BFromInt(_)
BFromInt(n) ==
    IF n = 0 THEN <<>> ELSE <<n % LimbBase>> \o BFromInt(n \div LimbBase)

RECURSIVE BToInt(_)
BToInt(a) ==
    IF a = <<>> THEN 0 ELSE a[1] + LimbBase * BToInt(Tail(a))

RECURSIVE BAddC(_, _, _, _)
BAddC(a, b, i, c) ==
    IF i > Len(a) /\ i > Len(b)
    THEN (IF c = 0 THEN <<>> ELSE <<c>>)
    ELSE LET s == Limb(a, i) + Limb(b, i) + c
         IN  <<s % LimbBase>> \o BAddC(a, b, i + 1, s \div LimbBase)

BAdd(a, b) == BAddC(a, b, 1, 0)

\* a - b for a >= b
RECURSIVE BSubC(_, _, _, _)
BSubC(a, b, i, c) ==
    IF i > Len(a) THEN <<>>
    ELSE LET s == a[i] - Limb(b, i) - c
         IN  IF s < 0
             THEN <<s + LimbBase>> \o BSubC(a, b, i + 1, 1)
             ELSE <<s>> \o BSubC(a, b, i + 1, 0)

BSub(a, b) == BNorm(BSubC(a, b, 1, 0))

\* a * k for a limb-sized k
RECURSIVE BMulSmallC(_, _, _, _)
BMulSmallC(a, k, i, c) ==
    IF i > Len(a)
    THEN (IF c = 0 THEN <<>> ELSE <<c>>)
    ELSE LET s == a[i] * k + c
         IN  <<s % LimbBase>> \o BMulSmallC(a, k, i + 1, s \div LimbBase)

BMulSmall(a, k) == IF k = 0 THEN <<>> ELSE BMulSmallC(a, k, 1, 0)

RECURSIVE BMul(_, _)
BMul(a, b) ==
    IF b = <<>> \/ a = <<>> THEN <<>>
    ELSE LET rest == BMul(a, Tail(b))
         IN  BAdd(BMulSmall(a, b[1]),
                  IF rest = <<>> THEN <<>> ELSE <<0>> \o rest)

RECURSIVE Zeros(_)
Zeros(n) == IF n = 0 THEN <<>> ELSE <<0>> \o Zeros(n - 1)

\* a * 2^k
BShl(a, k) ==
    IF a = <<>> THEN <<>>
    ELSE Zeros(k \div LimbBits) \o BMulSmall(a, Pow2(k % LimbBits))

\* floor(a / d) for 0 < d <= 2^16, from the high limb down; r is the
\* remainder carried in
RECURSIVE BDivSmallC(_, _, _, _)
BDivSmallC(a, d, i, r) ==
    IF i = 0 THEN <<>>
    ELSE LET cur == r * LimbBase + a[i]
         IN  BDivSmallC(a, d, i - 1, cur % d) \o <<cur \div d>>

BDivSmall(a, d) == BNorm(BDivSmallC(a, d, Len(a), 0))

RECURSIVE BModSmallC(_, _, _, _)
BModSmallC(a, d, i, r) ==
    IF i = 0 THEN r ELSE BModSmallC(a, d, i - 1, (r * LimbBase + a[i]) % d)

BModSmall(a, d) == BModSmallC(a, d, Len(a), 0)

\* floor(a / 2^k)
BShr(a, k) ==
    LET drop == k \div LimbBits
    IN  IF drop >= Len(a) THEN <<>>
        ELSE BDivSmall(SubSeq(a, drop + 1, Len(a)), Pow2(k % LimbBits))

RECURSIVE IntBitLen(_)
IntBitLen(n) == IF n = 0 THEN 0 ELSE 1 + IntBitLen(n \div 2)

BBitLen(a) ==
    IF a = <<>> THEN 0
    ELSE LimbBits * (Len(a) - 1) + IntBitLen(a[Len(a)])

BIsOdd(a) == a # <<>> /\ a[1] % 2 = 1

\* a < b
RECURSIVE BLessFrom(_, _, _)
BLessFrom(a, b, i) ==
    IF i = 0 THEN FALSE
    ELSE IF a[i] # b[i] THEN a[i] < b[i]
    ELSE BLessFrom(a, b, i - 1)

BLess(a, b) ==
    IF Len(a) # Len(b) THEN Len(a) < Len(b) ELSE BLessFrom(a, b, Len(a))

(***************************************************************************)
(* IEEE-754 binary64.  A double is [neg, m, e]: (-1)^neg * m * 2^e with m  *)
(* a natural of exactly 53 bits, or zero (m = <<>>, e = 0).  No value of   *)
(* the function leaves the normal range.                                   *)
(***************************************************************************)
MantBits == 53

DZero == [neg |-> FALSE, m |-> <<>>, e |-> 0]

\* n * 2^e rounded to nearest, ties to even
DRound(neg, n, e) ==
    LET len == BBitLen(n)
    IN  IF len = 0 THEN DZero
        ELSE IF len <= MantBits
        THEN [neg |-> neg, m |-> BShl(n, MantBits - len), e |-> e - (MantBits - len)]
        ELSE LET s      == len - MantBits
                 q      == BShr(n, s)
                 upper  == BShr(n, s - 1)
                 half   == BIsOdd(upper)
                 sticky == BShl(upper, s - 1) # n
                 up     == half /\ (sticky \/ BIsOdd(q))
                 q1     == IF up THEN BAdd(q, <<1>>) ELSE q
             IN  IF BBitLen(q1) > MantBits
                 THEN [neg |-> neg, m |-> BShr(q1, 1), e |-> e + s + 1]
                 ELSE [neg |-> neg, m |-> q1, e |-> e + s]

\* static_cast<double>(int)
DFromInt(n) ==
    IF n < 0 THEN DRound(TRUE, BFromInt(-n), 0) ELSE DRound(FALSE, BFromInt(n), 0)

DNeg(a) == IF a.m = <<>> THEN a ELSE [a EXCEPT !.neg = ~a.neg]

DMul(a, b) ==
    IF a.m = <<>> \/ b.m = <<>> THEN DZero
    ELSE DRound(a.neg # b.neg, BMul(a.m, b.m), a.e + b.e)

DAdd(a, b) ==
    IF a.m = <<>> THEN b
    ELSE IF b.m = <<>> THEN a
    ELSE LET lo == IF a.e < b.e THEN a.e ELSE b.e
             x  == BShl(a.m, a.e - lo)
             y  == BShl(b.m, b.e - lo)
         IN  IF a.neg = b.neg THEN DRound(a.neg, BAdd(x, y), lo)
             ELSE IF BLess(x, y) THEN DRound(b.neg, BSub(y, x), lo)
             ELSE DRound(a.neg, BSub(x, y), lo)

DSub(a, b) == DAdd(a, DNeg(b))

\* a * b + c with one rounding: the product enters the sum unrounded
DFma(a, b, c) ==
    IF a.m = <<>> \/ b.m = <<>> THEN c
    ELSE IF c.m = <<>> THEN DRound(a.neg # b.neg, BMul(a.m, b.m), a.e + b.e)
    ELSE DAdd([neg |-> a.neg # b.neg, m |-> BMul(a.m, b.m), e |-> a.e + b.e], c)

\* a / d for an int d in 1..2^16 (the int is converted exactly): the
\* quotient is carried to 30 more bits than a's significand and the
\* remainder is kept as one sticky bit below them
DDivInt(a, d) ==
    IF a.m = <<>> THEN DZero
    ELSE LET n == BShl(a.m, 30)
             q == BDivSmall(n, d)
         IN  IF BModSmall(n, d) = 0 THEN DRound(a.neg, q, a.e - 30)
             ELSE DRound(a.neg, BAdd(BShl(q, 1), <<1>>), a.e - 31)

DLess(a, b) == DSub(a, b).neg

\* std::min and std::max on doubles: the first argument unless the
\* second is smaller (larger)
DMin(a, b) == IF DLess(b, a) THEN b ELSE a

DMax(a, b) == IF DLess(a, b) THEN b ELSE a

\* static_cast<int>(double): truncation toward zero
DTrunc(a) ==
    IF a.m = <<>> THEN 0
    ELSE LET mag == IF a.e >= 0 THEN BToInt(BShl(a.m, a.e))
                    ELSE BToInt(BShr(a.m, -a.e))
         IN  IF a.neg THEN -mag ELSE mag

DOne == DFromInt(1)

DHalf == DRound(FALSE, <<1>>, -1)

(***************************************************************************)
(* 32-bit int and 8-bit unsigned arithmetic.                               *)
(***************************************************************************)
IntMax == 2147483647

\* a * 255 in 32-bit two's complement for 0 <= a <= IntMax, computed on
\* 16-bit halves: the exact product does not fit TLC's integers
WrapMul255(a) ==
    LET lo    == (a % 65536) * 255
        hi    == (a \div 65536) * 255 + lo \div 65536
        hi16  == hi % 65536
    IN  IF hi16 >= 32768
        THEN (hi16 - 65536) * 65536 + (lo % 65536)
        ELSE hi16 * 65536 + (lo % 65536)

\* int / int: the quotient is truncated toward zero
CDiv(a, b) == IF a >= 0 THEN a \div b ELSE -((-a) \div b)

\* static_cast<uint8_t>(int)
ToUint8(n) == n % 256

Min(a, b) == IF b < a THEN b ELSE a

Max(a, b) == IF a < b THEN b ELSE a

(***************************************************************************)
(* The function's constants and the const locals of lines 28-40.           *)
(***************************************************************************)
NUM_BINS == 256

Bins == 0 .. NUM_BINS - 1

\* clipCount, line 37
ClipCountOf(limit, pixelsPerTile) ==
    Max(1, DTrunc(DDivInt(DMul(limit, DFromInt(pixelsPerTile)), NUM_BINS)))

(***************************************************************************)
(* Step 1, per tile: histogram, clip and redistribute, CDF.                *)
(***************************************************************************)
ZeroHist == [i \in Bins |-> 0]

\* lines 51-55: bin v counts the pixels of the tile's region that hold v
\* (the k-th pixel the loops visit is (startX + k % tw, startY + k / tw))
BuildHist(buf, w, startX, startY, tw, th) ==
    LET visited == [k \in 0 .. tw * th - 1 |->
                      buf[(startY + (k \div tw)) * w + startX + (k % tw)]]
    IN  [v \in Bins |-> Cardinality({k \in DOMAIN visited : visited[k] = v})]

\* h[lo] + ... + h[hi - 1], by halves
RECURSIVE SumRange(_, _, _)
SumRange(h, lo, hi) ==
    IF hi <= lo THEN 0
    ELSE IF hi = lo + 1 THEN h[lo]
    ELSE LET mid == (lo + hi) \div 2
         IN  SumRange(h, lo, mid) + SumRange(h, mid, hi)

HistSum(h) == SumRange(h, 0, NUM_BINS)

\* lines 58-64: the excess above the clip count, and the clipped bins
ClipExcess(h, clip) ==
    SumRange([i \in Bins |-> IF h[i] > clip THEN h[i] - clip ELSE 0], 0, NUM_BINS)

ClipHist(h, clip) == [i \in Bins |-> IF h[i] > clip THEN clip ELSE h[i]]

\* line 72 with the factors of the quotient exchanged
MutRemainderBin(i, remainder) == (i * remainder) \div NUM_BINS

\* line 72: the bin that takes the i-th unit of the remainder
RemainderBin(i, remainder) == (i * NUM_BINS) \div remainder

\* lines 65-69 alone: the remainder is dropped
MutRedistribute(h, exc) == [b \in Bins |-> h[b] + exc \div NUM_BINS]

\* lines 65-73: every bin takes the increment, and one more unit for each
\* i < remainder that lands on it
Redistribute(h, exc) ==
    LET increment == exc \div NUM_BINS
        remainder == exc % NUM_BINS
        target    == [i \in 0 .. remainder - 1 |-> RemainderBin(i, remainder)]
    IN  [b \in Bins |->
            h[b] + increment + Cardinality({i \in DOMAIN target : target[i] = b})]

\* lines 80-81 with the divisor one too large
MutCdfEntry(cumSum, pixelsPerTile) ==
    ToUint8(Min(255, CDiv(WrapMul255(cumSum), pixelsPerTile + 1)))

\* lines 80-81: one entry of the CDF table.  cumSum * 255 is an int
\* product; beyond IntMax it wraps
CdfEntry(cumSum, pixelsPerTile) ==
    ToUint8(Min(255, CDiv(WrapMul255(cumSum), pixelsPerTile)))

\* lines 77-82 with "cumSum = hist[i]" for "cumSum += hist[i]"
RECURSIVE MutCdfLoop(_, _, _, _, _)
MutCdfLoop(h, pixelsPerTile, lo, hi, cumSum) ==
    IF hi = lo + 1 THEN <<CdfEntry(h[lo], pixelsPerTile)>>
    ELSE LET mid == (lo + hi) \div 2
         IN  MutCdfLoop(h, pixelsPerTile, lo, mid, 0)
             \o MutCdfLoop(h, pixelsPerTile, mid, hi, 0)

\* lines 77-82 for the bins lo .. hi - 1, entered with the running sum
\* cumSum; the range is split in halves and the second half is entered
\* with the sum the first half leaves
RECURSIVE CdfLoop(_, _, _, _, _)
CdfLoop(h, pixelsPerTile, lo, hi, cumSum) ==
    IF hi = lo + 1 THEN <<CdfEntry(cumSum + h[lo], pixelsPerTile)>>
    ELSE LET mid == (lo + hi) \div 2
         IN  CdfLoop(h, pixelsPerTile, lo, mid, cumSum)
             \o CdfLoop(h, pixelsPerTile, mid, hi, cumSum + SumRange(h, lo, mid))

\* the tile's 256 entries, as a sequence (entry i at position i + 1)
TileCdf(h, pixelsPerTile) == CdfLoop(h, pixelsPerTile, 0, NUM_BINS, 0)

(***************************************************************************)
(* Step 2, per pixel: lines 96-125.                                        *)
(***************************************************************************)
\* lines 96-97: the pixel's coordinate in tile-centre space
TileCoord(pos, tileSize) == DSub(DDivInt(DFromInt(pos), tileSize), DHalf)

\* lines 99-104 without the upper clamp
MutTileIndex(f, tiles) == Max(0, DTrunc(f))

\* lines 99-104: the lower tile index, truncated and clamped
TileIndex(f, tiles) == Max(0, Min(DTrunc(f), tiles - 2))

\* lines 109-112: the clamped interpolation weight
Weight(f, t0) == DMax(DZero, DMin(DOne, DSub(f, DFromInt(t0))))

\* a * b + c * d as the build computes it.  The language lets a compiler
\* contract the expression: without contraction both products and the sum
\* are rounded; a build for a target with fused multiply-add (GCC and Clang
\* contract by default) rounds c * d and then a * b + (c * d) once
MulAdd(a, b, c, d, fused) ==
    IF fused THEN DFma(a, b, DMul(c, d)) ELSE DAdd(DMul(a, b), DMul(c, d))

\* lines 120-125: the blend of the four fetched values, as stored
Blend(v00, v01, v10, v11, wx, wy, fused) ==
    LET top    == MulAdd(DFromInt(v00), DSub(DOne, wx), DFromInt(v01), wx, fused)
        bottom == MulAdd(DFromInt(v10), DSub(DOne, wx), DFromInt(v11), wx, fused)
        value  == MulAdd(top, DSub(DOne, wy), bottom, wy, fused)
    IN  ToUint8(DTrunc(DMax(DZero, DMin(DFromInt(255), value))))

\* cdfs[idx]: the entry when idx is inside the vector; past its end the
\* read is undefined and yields the byte that memory holds there (an index
\* outside the memory considered is a read whose value is not used)
ReadCdf(table, idx, memory) ==
    IF idx < Len(table) THEN table[idx + 1]
    ELSE IF idx \in DOMAIN memory THEN memory[idx] ELSE 0

(***************************************************************************)
(* Bounds of the model.                                                    *)
(***************************************************************************)
MaxWidth == 6

MaxHeight == 3

MaxTiles == 3

\* the valid inputs with a single row or column of tiles read past the CDF
\* table, and each such read may find any byte; they are stepped through
\* for images of at most this many pixels
MaxOverrunPixels == 3

\* the bytes a read past the end of the CDF table may find
GarbageBytes == 0 .. 255

ClipLimits == {DFromInt(2), DFromInt(64)}

\* the test images: one level, two levels in halves, and a ramp of step b
\* from a
Images ==
    {[kind |-> "uniform", a |-> v, b |-> v] : v \in {0, 128, 255}}
    \cup {[kind |-> "halves", a |-> 0, b |-> 255], [kind |-> "ramp", a |-> 200, b |-> 85]}

PixelOf(img, px, py, w) ==
    CASE img.kind = "uniform" -> img.a
      [] img.kind = "halves"  -> IF 2 * px < w THEN img.a ELSE img.b
      [] img.kind = "ramp"    -> (img.a + img.b * (py * w + px)) % 256

\* a row-major buffer of w * h samples (one sample per missing dimension
\* when w or h is not positive)
ImageOf(img, w, h) ==
    LET cols == Max(1, w)
        rows == Max(1, h)
    IN  [i \in 0 .. cols * rows - 1 |-> PixelOf(img, i % cols, i \div cols, cols)]

(***************************************************************************)
(* The state: the parameters, the locals of applyCLAHE, the program        *)
(* counter, and two history variables (entry, counted).                    *)
(***************************************************************************)
VARIABLES
    fpContract,         \* the build: are lines 120-122 contracted
    dataPtr,            \* "nullptr" or "buffer"
    data,               \* the caller's buffer, indexed from 0
    width, height, tilesX, tilesY, clipLimit,
    tileW, tileH, numPixelsPerTile, clipCount,
    allocated,          \* the vectors constructed so far
    cdfs,               \* the CDF table; entry i is cdfs[i + 1]
    ty, tx, hist, excess,
    output,             \* the output buffer, indexed from 0
    y, x, tx0, ty0, cax, cay,
    pc,
    entry,              \* history: the buffer as it was on entry
    counted             \* history: how many histograms counted each pixel

params == <<fpContract, dataPtr, width, height, tilesX, tilesY, clipLimit, entry>>

consts == <<tileW, tileH, numPixelsPerTile, clipCount>>

tileVars == <<ty, tx, hist, excess, counted>>

pixelVars == <<y, x, tx0, ty0, cax, cay>>

vars == <<params, data, consts, allocated, cdfs, tileVars, output, pixelVars, pc>>

Locals0 ==
    /\ tileW = 0 /\ tileH = 0 /\ numPixelsPerTile = 0 /\ clipCount = 0
    /\ allocated = {}
    /\ cdfs = <<>>
    /\ ty = 0 /\ tx = 0
    /\ hist = ZeroHist
    /\ excess = 0
    /\ output = <<>>
    /\ y = 0 /\ x = 0 /\ tx0 = 0 /\ ty0 = 0
    /\ cax = DZero /\ cay = DZero

\* lines 25-26 alone: the check of line 32 is missing
MutInvalid ==
    IF dataPtr = "nullptr" \/ width <= 0 \/ height <= 0 THEN TRUE
    ELSE tilesX <= 0 \/ tilesY <= 0

\* lines 25-32: the three early returns
Invalid ==
    IF dataPtr = "nullptr" \/ width <= 0 \/ height <= 0 THEN TRUE
    ELSE IF tilesX <= 0 \/ tilesY <= 0 THEN TRUE
    ELSE width \div tilesX <= 0 \/ height \div tilesY <= 0

\* with a single row or column of tiles, tx1 or ty1 of lines 105-106 names
\* a tile past the last one and lines 116-118 read past the table; with
\* two or more of each no read leaves the table
Overrun == tilesX < 2 \/ tilesY < 2

Init ==
    /\ fpContract \in BOOLEAN
    /\ dataPtr \in {"nullptr", "buffer"}
    /\ width \in -1 .. MaxWidth
    /\ height \in -1 .. MaxHeight
    /\ tilesX \in -1 .. MaxTiles
    /\ tilesY \in -1 .. MaxTiles
    /\ clipLimit \in ClipLimits
    /\ (~Invalid /\ Overrun) => width * height <= MaxOverrunPixels
    /\ \E img \in Images :
          data = IF dataPtr = "nullptr" THEN <<>> ELSE ImageOf(img, width, height)
    /\ entry = data
    /\ counted = [i \in DOMAIN data |-> 0]
    /\ Locals0
    /\ pc = "validate"

Return ==
    /\ pc = "validate"
    /\ Invalid
    /\ pc' = "done"
    /\ UNCHANGED <<params, data, consts, allocated, cdfs, tileVars, output, pixelVars>>

\* lines 25-37: validation passed; the const locals
Validate ==
    /\ pc = "validate"
    /\ ~Invalid
    /\ tileW' = width \div tilesX
    /\ tileH' = height \div tilesY
    /\ numPixelsPerTile' = tileW' * tileH'
    /\ clipCount' = ClipCountOf(clipLimit, numPixelsPerTile')
    /\ pc' = "alloc_cdfs"
    /\ UNCHANGED <<params, data, allocated, cdfs, tileVars, output, pixelVars>>

\* lines 40-41
AllocCdfs ==
    /\ pc = "alloc_cdfs"
    /\ cdfs' = [i \in 1 .. tilesX * tilesY * NUM_BINS |-> 0]
    /\ allocated' = allocated \cup {"cdfs"}
    /\ ty' = 0 /\ tx' = 0
    /\ pc' = "histogram"
    /\ UNCHANGED <<params, data, consts, hist, excess, counted, output, pixelVars>>

InTile(i) ==
    /\ tx * tileW <= i % width /\ i % width < tx * tileW + tileW
    /\ ty * tileH <= i \div width /\ i \div width < ty * tileH + tileH

\* lines 46-55
BuildHistogram ==
    /\ pc = "histogram"
    /\ hist' = BuildHist(data, width, tx * tileW, ty * tileH, tileW, tileH)
    /\ counted' = [i \in DOMAIN counted |-> IF InTile(i) THEN counted[i] + 1 ELSE counted[i]]
    /\ pc' = "clip"
    /\ UNCHANGED <<params, data, consts, allocated, cdfs, ty, tx, excess, output, pixelVars>>

\* lines 57-73
ClipRedistribute ==
    /\ pc = "clip"
    /\ excess' = ClipExcess(hist, clipCount)
    /\ hist' = Redistribute(ClipHist(hist, clipCount), excess')
    /\ pc' = "cdf"
    /\ UNCHANGED <<params, data, consts, allocated, cdfs, ty, tx, counted, output, pixelVars>>

\* lines 75-82, and the step of the tile loops of lines 44-45
BuildCdf ==
    /\ pc = "cdf"
    /\ LET base == (ty * tilesX + tx) * NUM_BINS
       IN  cdfs' = SubSeq(cdfs, 1, base)
                   \o TileCdf(hist, numPixelsPerTile)
                   \o SubSeq(cdfs, base + NUM_BINS + 1, Len(cdfs))
    /\ IF tx + 1 < tilesX
       THEN tx' = tx + 1 /\ ty' = ty /\ pc' = "histogram"
       ELSE /\ tx' = 0
            /\ ty' = ty + 1
            /\ pc' = IF ty + 1 < tilesY THEN "histogram" ELSE "alloc_output"
    /\ UNCHANGED <<params, data, consts, allocated, hist, excess, counted, output, pixelVars>>

\* line 88
AllocOutput ==
    /\ pc = "alloc_output"
    /\ output' = [i \in 0 .. width * height - 1 |-> 0]
    /\ allocated' = allocated \cup {"output"}
    /\ y' = 0 /\ x' = 0
    /\ pc' = "pixel"
    /\ UNCHANGED <<params, data, consts, cdfs, tileVars, tx0, ty0, cax, cay>>

\* lines 105-106 and 115-118: the four indices of cdfs read for a pixel of
\* value pixel whose lower tile indices are t0x and t0y, in the order v00,
\* v01, v10, v11
PixelReads(t0x, t0y, pixel) ==
    <<(t0y * tilesX + t0x) * NUM_BINS + pixel,
      (t0y * tilesX + t0x + 1) * NUM_BINS + pixel,
      ((t0y + 1) * tilesX + t0x) * NUM_BINS + pixel,
      ((t0y + 1) * tilesX + t0x + 1) * NUM_BINS + pixel>>

\* lines 120-122: which of v00, v01, v10, v11 reach the value, given
\* whether cax is 0.0 or 1.0 and whether cay is.  One whose factor (cax or
\* 1 - cax), or whose row's factor (cay or 1 - cay), is 0.0 contributes the
\* product 0.0 whatever byte was read
UsedReads(zeroX, oneX, zeroY, oneY) ==
    <<~oneX /\ ~oneY, ~zeroX /\ ~oneY, ~oneX /\ ~zeroY, ~zeroX /\ ~zeroY>>

\* lines 92-125, and the step of the pixel loops of lines 90-91.  A read
\* past the end of cdfs finds any byte: the memory there is not the
\* function's (it can be the allocator's, or the output vector that this
\* loop is writing), so nothing fixes it from one pixel to the next; two
\* reads of one address for one pixel find the same byte
Interpolate ==
    /\ pc = "pixel"
    /\ LET pixel == data[y * width + x]
           fx    == TileCoord(x, tileW)
           fy    == TileCoord(y, tileH)
       IN  /\ tx0' = TileIndex(fx, tilesX)
           /\ ty0' = TileIndex(fy, tilesY)
           /\ cax' = Weight(fx, tx0')
           /\ cay' = Weight(fy, ty0')
           /\ LET idx  == PixelReads(tx0', ty0', pixel)
                  used == UsedReads(cax'.m = <<>>, ~DLess(cax', DOne),
                                    cay'.m = <<>>, ~DLess(cay', DOne))
                  past == {idx[k] : k \in {j \in 1 .. 4 : idx[j] >= Len(cdfs) /\ used[j]}}
              IN  \E memory \in [past -> GarbageBytes] :
                     output' = [output EXCEPT ![y * width + x] =
                                   Blend(ReadCdf(cdfs, idx[1], memory),
                                         ReadCdf(cdfs, idx[2], memory),
                                         ReadCdf(cdfs, idx[3], memory),
                                         ReadCdf(cdfs, idx[4], memory), cax', cay',
                                         fpContract)]
    /\ IF x + 1 < width
       THEN x' = x + 1 /\ y' = y /\ pc' = "pixel"
       ELSE /\ x' = 0
            /\ y' = y + 1
            /\ pc' = IF y + 1 < height THEN "pixel" ELSE "copy"
    /\ UNCHANGED <<params, data, consts, allocated, cdfs, tileVars>>

\* the four indices the pixel (x, y) about to be computed reads
PendingReads ==
    PixelReads(TileIndex(TileCoord(x, tileW), tilesX),
               TileIndex(TileCoord(y, tileH), tilesY), data[y * width + x])

\* lines 115-118 in a build that checks the accesses (a sanitizer, a
\* hardened std::vector) or whose read faults: a read past the end of cdfs
\* ends the process, and the caller's buffer is left as it was
Abort ==
    /\ pc = "pixel"
    /\ \E k \in 1 .. 4 : PendingReads[k] >= Len(cdfs)
    /\ pc' = "aborted"
    /\ UNCHANGED <<params, data, consts, allocated, cdfs, tileVars, output, pixelVars>>

\* line 130
CopyBack ==
    /\ pc = "copy"
    /\ data' = [i \in DOMAIN data |-> IF i < width * height THEN output[i] ELSE data[i]]
    /\ pc' = "done"
    /\ UNCHANGED <<params, consts, allocated, cdfs, tileVars, output, pixelVars>>

Next ==
    \/ Return
    \/ Validate
    \/ AllocCdfs
    \/ BuildHistogram
    \/ ClipRedistribute
    \/ BuildCdf
    \/ AllocOutput
    \/ Interpolate
    \/ Abort
    \/ CopyBack

Spec == Init /\ [][Next]_vars

(***************************************************************************)
(* The per-tile stages of lines 57-82 on their own: from the histogram of  *)
(* one tile of numPixelsPerTile pixels to its 256 CDF entries.  The tile   *)
(* sizes reach those whose running sum times 255 leaves the int range,     *)
(* which no image small enough to step through pixel by pixel has.         *)
(***************************************************************************)
MaxTilePixels == 320

\* tile sizes around IntMax / 255 = 8421504 and up to IntMax
LargeTiles == {8421504, 8421505, 16777216, IntMax}

TileSizes == (1 .. MaxTilePixels) \cup LargeTiles

\* the histogram of a tile of n pixels, k of value 0 and the others of
\* value 255
SplitHist(n, k) == [v \in Bins |-> IF v = 0 THEN k ELSE IF v = 255 THEN n - k ELSE 0]

\* the histogram of a tile of n pixels whose values run 0, 1, ..., 255, 0, ...
RampHist(n) ==
    [v \in Bins |-> (n \div NUM_BINS) + (IF v < n % NUM_BINS THEN 1 ELSE 0)]

\* the histogram of a tile of n pixels of value 200
FlatHist(n) == [v \in Bins |-> IF v = 200 THEN n ELSE 0]

TileHists(n) ==
    {SplitHist(n, 0), SplitHist(n, n \div 2), SplitHist(n, n), RampHist(n), FlatHist(n)}

TileInit ==
    /\ fpContract = FALSE
    /\ dataPtr = "buffer"
    /\ data = <<>>
    /\ width = 0 /\ height = 0 /\ tilesX = 0 /\ tilesY = 0
    /\ clipLimit \in ClipLimits
    /\ entry = data
    /\ counted = <<>>
    /\ numPixelsPerTile \in TileSizes
    /\ clipCount = ClipCountOf(clipLimit, numPixelsPerTile)
    /\ tileW = 0 /\ tileH = 0
    /\ allocated = {"cdfs"}
    /\ cdfs = [i \in 1 .. NUM_BINS |-> 0]
    /\ ty = 0 /\ tx = 0
    /\ hist \in TileHists(numPixelsPerTile)
    /\ excess = 0
    /\ output = <<>>
    /\ y = 0 /\ x = 0 /\ tx0 = 0 /\ ty0 = 0
    /\ cax = DZero /\ cay = DZero
    /\ pc = "tile_clip"

\* lines 57-73
TileClip ==
    /\ pc = "tile_clip"
    /\ excess' = ClipExcess(hist, clipCount)
    /\ hist' = Redistribute(ClipHist(hist, clipCount), excess')
    /\ pc' = "tile_cdf"
    /\ UNCHANGED <<params, data, consts, allocated, cdfs, ty, tx, counted, output, pixelVars>>

\* line 81 overflows for some bin: the running sum ends at the tile's
\* pixel count, since redistribution conserves it
Overflows == numPixelsPerTile > IntMax \div 255

\* lines 75-82, in a build whose int arithmetic wraps
TileBuildCdf ==
    /\ pc = "tile_cdf"
    /\ cdfs' = TileCdf(hist, numPixelsPerTile)
    /\ pc' = "tile_done"
    /\ UNCHANGED <<params, data, consts, allocated, tileVars, output, pixelVars>>

\* lines 75-82, in a build that traps on signed overflow
TileTrap ==
    /\ pc = "tile_cdf"
    /\ Overflows
    /\ pc' = "tile_trap"
    /\ UNCHANGED <<params, data, consts, allocated, cdfs, tileVars, output, pixelVars>>

TileNext == TileClip \/ TileBuildCdf \/ TileTrap

TileSpec == TileInit /\ [][TileNext]_vars

(***************************************************************************)
(* Vocabulary of the properties.                                           *)
(***************************************************************************)
\* the inputs the specification calls valid
ValidInput ==
    /\ dataPtr = "buffer"
    /\ width > 0 /\ height > 0
    /\ tilesX > 0 /\ tilesY > 0
    /\ tilesX <= width /\ tilesY <= height

\* at least one pixel has been interpolated; the last one has index LastIndex
Interpolated == "output" \in allocated /\ x + y > 0

LastIndex == y * width + x - 1

LastX == LastIndex % width

LastY == LastIndex \div width

\* the four table indices lines 115-118 read for the last pixel
LastReads ==
    LET p   == entry[LastIndex]
    IN  {(ty0 * tilesX + tx0) * NUM_BINS + p,
         (ty0 * tilesX + tx0 + 1) * NUM_BINS + p,
         ((ty0 + 1) * tilesX + tx0) * NUM_BINS + p,
         ((ty0 + 1) * tilesX + tx0 + 1) * NUM_BINS + p}

Clamp(v, lo, hi) == IF v < lo THEN lo ELSE IF v > hi THEN hi ELSE v

\* floor(pos / tileSize - 1/2), exactly
FloorCoord(pos, tileSize) == (2 * pos - tileSize) \div (2 * tileSize)

(***************************************************************************)
(* C1.  A call with invalid inputs (a null buffer, a dimension or a tile   *)
(* count that is not positive, more tiles than pixels in a direction)      *)
(* leaves the buffer as it was and returns before the CDF table or the     *)
(* output buffer is allocated and before any histogram is built.           *)
(***************************************************************************)
C1_InvalidInput ==
    \/ dataPtr = "nullptr"
    \/ width <= 0 \/ height <= 0
    \/ tilesX <= 0 \/ tilesY <= 0
    \/ tilesX > width \/ tilesY > height

C1_InvalidIsNoOp ==
    C1_InvalidInput =>
        /\ pc \in {"validate", "done"}
        /\ data = entry
        /\ allocated = {}
        /\ hist = ZeroHist
        /\ \A i \in DOMAIN counted : counted[i] = 0

C1_Witness ==
    /\ pc = "done"
    /\ dataPtr = "buffer" /\ width > 0 /\ height > 0
    /\ tilesX > width /\ tilesY > 0
    /\ data = entry

(***************************************************************************)
(* C2.  For every valid input, one row or one column of tiles included,    *)
(* the four tiles read for a pixel exist: 0 <= tx0 < tx1 <= tilesX - 1,    *)
(* 0 <= ty0 < ty1 <= tilesY - 1, and every index read lies inside the CDF  *)
(* table.                                                                  *)
(***************************************************************************)
C2_TilesExist ==
    ValidInput /\ Interpolated =>
        /\ 0 <= tx0 /\ tx0 + 1 <= tilesX - 1
        /\ 0 <= ty0 /\ ty0 + 1 <= tilesY - 1
        /\ \A idx \in LastReads : 0 <= idx /\ idx < tilesX * tilesY * NUM_BINS

(***************************************************************************)
(* C3.  As claimed: a valid call on an image whose pixels all hold one     *)
(* intensity v leaves every pixel equal to v.                              *)
(* As amended: with two or more tiles in each direction, the call leaves   *)
(* every pixel equal to one common value, the tiles' CDF entry at v        *)
(* (all tiles have the same table); that value is v when v = 255.          *)
(***************************************************************************)
UniformEntry == \A i \in DOMAIN entry : entry[i] = entry[0]

C3_UniformStable ==
    pc = "done" /\ ValidInput /\ UniformEntry => data = entry

C3_UniformToCdfEntry ==
    pc = "done" /\ ValidInput /\ tilesX >= 2 /\ tilesY >= 2 /\ UniformEntry =>
        /\ \A i \in DOMAIN data : data[i] = cdfs[entry[0] + 1]
        /\ \A t \in 0 .. tilesX * tilesY - 1 :
              cdfs[t * NUM_BINS + entry[0] + 1] = cdfs[entry[0] + 1]
        /\ entry[0] = 255 => data = entry

C3_Witness ==
    /\ pc = "done" /\ ValidInput /\ tilesX >= 2 /\ tilesY >= 2
    /\ UniformEntry /\ entry[0] = 255
    /\ width % tilesX # 0
    /\ data = entry

(***************************************************************************)
(* C4.  On a valid call the caller's buffer is written by the final        *)
(* copy-back alone, after every pixel's output has been written to the     *)
(* output buffer; while the pixels are computed the buffer still holds     *)
(* the input, the CDF table is complete and no longer changes, each step   *)
(* writes the output buffer at the pixel's own position only, and the      *)
(* value it writes is computed from the pixel's input intensity and        *)
(* entries of the CDF table alone (no read leaves the table).  At return   *)
(* the buffer is the whole output or is unchanged.                         *)
(***************************************************************************)
\* the buffer is written by the copy-back alone, once every output is there
C4_BufferStep ==
    /\ data' # data =>
          /\ pc = "copy" /\ pc' = "done"
          /\ y = height /\ x = 0
          /\ data' = output
    /\ pc = "pixel" =>
          /\ data = entry
          /\ cdfs' = cdfs
          /\ \A i \in DOMAIN output : i # y * width + x => output'[i] = output[i]
    /\ pc' = "done" => data' = entry \/ (ValidInput /\ data' = output)

\* the four values fetched for the pixel are entries of the table
C4_ReadStep ==
    pc = "pixel" =>
        /\ pc' # "aborted"
        /\ \A k \in 1 .. 4 : PendingReads[k] < Len(cdfs)

C4_Step == C4_BufferStep /\ C4_ReadStep

C4_SingleCopyBack == [][C4_Step]_vars

(***************************************************************************)
(* C5.  For every valid input: each tile's histogram sums to tileW*tileH   *)
(* before clipping, a pixel with x < tilesX*tileW and y < tilesY*tileH is  *)
(* counted in exactly one histogram and any other pixel in none, and       *)
(* every pixel, covered or not, is given an output in 0..255 computed      *)
(* from a pair of existing tiles in each direction.                        *)
(***************************************************************************)
Covered(i) == i % width < tilesX * tileW /\ i \div width < tilesY * tileH

C5_Histograms ==
    /\ pc = "clip" => HistSum(hist) = tileW * tileH
    /\ pc \in {"alloc_output", "pixel", "copy", "done"} /\ ValidInput =>
          \A i \in DOMAIN counted : counted[i] = IF Covered(i) THEN 1 ELSE 0

C5_EveryPixelFromValidTiles ==
    /\ C5_Histograms
    /\ ValidInput /\ Interpolated =>
          /\ output[LastIndex] \in 0 .. 255
          /\ tx0 \in 0 .. tilesX - 1 /\ tx0 + 1 \in 0 .. tilesX - 1
          /\ ty0 \in 0 .. tilesY - 1 /\ ty0 + 1 \in 0 .. tilesY - 1

(***************************************************************************)
(* C9.  With two or more tiles in each direction, the tile indices the     *)
(* code obtains by truncating fx and fy toward zero and clamping are       *)
(* floor(fx) clamped to 0..tilesX-2 and floor(fy) clamped to 0..tilesY-2,  *)
(* the weights are in [0,1], and the value written lies between the least  *)
(* and the greatest of the four fetched CDF values.                        *)
(***************************************************************************)
C9_FloorAndRange ==
    ValidInput /\ tilesX >= 2 /\ tilesY >= 2 /\ Interpolated =>
        /\ tx0 = Clamp(FloorCoord(LastX, tileW), 0, tilesX - 2)
        /\ ty0 = Clamp(FloorCoord(LastY, tileH), 0, tilesY - 2)
        /\ ~DLess(cax, DZero) /\ ~DLess(DOne, cax)
        /\ ~DLess(cay, DZero) /\ ~DLess(DOne, cay)
        /\ \E lo \in LastReads : cdfs[lo + 1] <= output[LastIndex]
        /\ \E hi \in LastReads : output[LastIndex] <= cdfs[hi + 1]

\* a pixel left of the first tile centre of a tile three pixels wide (fx is
\* -1/6: truncation gives 0, floor gives -1), with four different values
C9_Witness ==
    /\ ValidInput /\ tilesX >= 2 /\ tilesY >= 2 /\ Interpolated
    /\ tileW = 3 /\ LastX = 1
    /\ FloorCoord(LastX, tileW) = -1 /\ tx0 = 0
    /\ Cardinality({cdfs[i + 1] : i \in LastReads}) > 1

(***************************************************************************)
(* Properties of the per-tile stages, under TileSpec.                      *)
(***************************************************************************)
Clipped == pc \in {"tile_cdf", "tile_done", "tile_trap"}

(***************************************************************************)
(* C6.  Clipping and redistribution conserve the count: for clipCount >=   *)
(* 1 the 256 bins still sum to the tile's pixel count and none is          *)
(* negative; when the remainder is 0 the remainder step hands out nothing  *)
(* (every bin is at most clipCount + floor(excess/256)).                   *)
(***************************************************************************)
C6_CountConserved ==
    pc = "tile_cdf" =>
        /\ clipCount >= 1
        /\ HistSum(hist) = numPixelsPerTile
        /\ \A b \in Bins : hist[b] >= 0
        /\ excess % NUM_BINS = 0 =>
              \A b \in Bins : hist[b] <= clipCount + excess \div NUM_BINS

\* both the increment and the remainder are at work
C6_Witness ==
    /\ pc = "tile_cdf"
    /\ excess \div NUM_BINS >= 1 /\ excess % NUM_BINS > 0
    /\ HistSum(hist) = numPixelsPerTile

(***************************************************************************)
(* C7.  With the running sum's arithmetic in range, a tile's 256 CDF       *)
(* entries are non-decreasing, each is in 0..255, and the last is the      *)
(* largest and is 255 (the running sum ends at the tile's pixel count).    *)
(***************************************************************************)
C7_CdfMonotone ==
    pc = "tile_done" /\ ~Overflows =>
        /\ \A i \in 1 .. NUM_BINS - 1 : cdfs[i] <= cdfs[i + 1]
        /\ \A i \in 1 .. NUM_BINS : cdfs[i] \in 0 .. 255 /\ cdfs[i] <= cdfs[NUM_BINS]
        /\ cdfs[NUM_BINS] = 255

C7_Witness ==
    /\ pc = "tile_done" /\ ~Overflows
    /\ excess > 0
    /\ Cardinality({cdfs[i] : i \in 1 .. NUM_BINS}) > 100
    /\ cdfs[NUM_BINS] = 255

(***************************************************************************)
(* C8.  For every tile size up to the int range the stored CDF entry is    *)
(* clamp(floor(cumSum * 255 / numPixelsPerTile), 0, 255): an entry e with  *)
(* 0 <= e <= 255 and e * n <= cumSum * 255 < (e + 1) * n (cumSum never     *)
(* exceeds n, so the clamp is idle).  The products are compared as         *)
(* unbounded naturals.                                                     *)
(***************************************************************************)
ExactEntry(e, cumSum, n) ==
    /\ e \in 0 .. 255
    /\ ~BLess(BMulSmall(BFromInt(cumSum), 255), BMulSmall(BFromInt(n), e))
    /\ BLess(BMulSmall(BFromInt(cumSum), 255), BMulSmall(BFromInt(n), e + 1))

C8_EntriesExact ==
    pc = "tile_done" =>
        \A i \in Bins : ExactEntry(cdfs[i + 1], SumRange(hist, 0, i + 1), numPixelsPerTile)

(***************************************************************************)
(* C10.  For a remainder r in 1..255 the bins floor(i * 256 / r), i in     *)
(* 0..r-1, are r different bins of 0..255, so no bin takes two units of    *)
(* the remainder: after redistribution every bin is at most                *)
(* clipCount + floor(excess / 256) + 1.                                    *)
(***************************************************************************)
C10_RemainderBinsDistinct ==
    pc = "tile_cdf" /\ excess % NUM_BINS >= 1 =>
        LET r == excess % NUM_BINS
        IN  /\ \A i \in 0 .. r - 1 : RemainderBin(i, r) \in Bins
            /\ Cardinality({RemainderBin(i, r) : i \in 0 .. r - 1}) = r
            /\ \A b \in Bins : hist[b] <= clipCount + excess \div NUM_BINS + 1

\* the 8 x 8 tile half 0 and half 255 at clip limit 2.0: clipCount 1, excess
\* 62, and 62 bins one above what clipping left them
C10_Witness ==
    /\ pc = "tile_cdf"
    /\ numPixelsPerTile = 64 /\ clipCount = 1 /\ excess = 62
    /\ Cardinality({b \in Bins : hist[b] = (IF b \in {0, 255} THEN 2 ELSE 1)}) = 62

====
